---- MODULE Spec2Model ----
(***************************************************************************)
(* Incremental sync loop of the Bank of Canada connector                   *)
(* (src/src/nodes/series_data.py, run): per catalog series it plans a      *)
(* start date, fetches, merges by date, writes the series file, then       *)
(* writes the state blob.  The raw series files and the state blob are     *)
(* durable; everything else is memory of one run.                          *)
(***************************************************************************)
EXTENDS Integers, Sequences, FiniteSets, TLC

\* Bounds of the model.
MaxDay == 2       \* ISO dates 2020-01-01 .. 2020-01-MaxDay occur upstream
MaxBatch == 2     \* a fetch returns at most MaxBatch rows
MaxRuns == 2      \* number of sync runs started

\* The catalog (load_raw_file("series_list") parsed): names in catalog order.
series_list == <<"A", "B">>

Codes == {series_list[i] : i \in DOMAIN series_list}

(***************************************************************************)
(* Date strings.  A date string is modelled by its shape and a number:     *)
(*   IsoDate(n)     "2020-01-nn"   contains '-', no 'Q'                    *)
(*   QuarterCode(q) "2020Qq"       contains 'Q', no '-'                    *)
(*   Revisions      "REVISIONS"    neither (a stray marker row)            *)
(*   None           Python None / absent key                               *)
(***************************************************************************)
IsoDate(n) == [fmt |-> "iso", n |-> n]

QuarterCode(q) == [fmt |-> "quarter", n |-> q]

Revisions == [fmt |-> "text", n |-> 0]

None == [fmt |-> "none", n |-> 0]

\* '-' in date
HasDash(d) == d.fmt = "iso"

\* 'Q' in date
HasQ(d) == d.fmt = "quarter"

\* Position of a date string in Python's string order:
\* "2020-01-01" < "2020-01-02" < ... < "2020Q1" < ... < "REVISIONS".
StrRank(d) ==
    CASE d.fmt = "iso" -> d.n
      [] d.fmt = "quarter" -> 1000 + d.n
      [] d.fmt = "text" -> 2000
      [] OTHER -> 0

StrLeq(a, b) == StrRank(a) <= StrRank(b)

\* max(dates) on a non-empty set of date strings
MaxDate(dates) == CHOOSE d \in dates : \A e \in dates : StrLeq(e, d)

\* The dates the upstream may send: ISO dates, and quarter codes.
UpstreamDates == {IsoDate(n) : n \in 1..MaxDay} \cup {QuarterCode(1)}

\* Raw value cells (line 86 keeps row[series_code] as the CSV has it) are
\* modelled by a number: r >= 0 is a decimal string, NotANumber a cell that
\* float() rejects, such as "" or a date.
NotANumber == -1

IsNumeric(v) == v # NotANumber

\* The rows a fetch of run r may return.  The loop never reads a value, so
\* one decimal value per run is enough to tell a stored row from a later row
\* with the same date: the upstream revises every value between two runs.
Rows(r) == [date : UpstreamDates, value : {r}]

\* The same rows, and one whose cell is not a number.
RowsWithText(r) == Rows(r) \cup [date : {IsoDate(1)}, value : {NotANumber}]

RECURSIVE SeqsUpTo(_, _)
SeqsUpTo(S, n) ==
    IF n = 0 THEN {<<>>}
    ELSE LET shorter == SeqsUpTo(S, n - 1)
         IN shorter \cup {Append(s, x) :
                              s \in {t \in shorter : Len(t) = n - 1}, x \in S}

Batches(r) == SeqsUpTo(Rows(r), MaxBatch)

BatchesWithText(r) == SeqsUpTo(RowsWithText(r), MaxBatch)

\* Views of a list of rows used to state properties.
DatesIn(rows) == {rows[i].date : i \in DOMAIN rows}

RowsIn(rows) == {rows[i] : i \in DOMAIN rows}

WellFormedDates(rows) == {d \in DatesIn(rows) : HasDash(d)}

\* [obs["date"] for obs in rows if obs["date"] and '-' in obs["date"]]
ValidDates(rows) ==
    {rows[i].date : i \in {j \in DOMAIN rows : HasDash(rows[j].date)}}

\* (strptime(last_date, "%Y-%m-%d") + timedelta(days=1)).strftime("%Y-%m-%d")
next_day(d) == IsoDate(d.n + 1)

\* Lines 135-152: the last date from the state, else derived from the stored
\* rows, and the start date of the fetch.
last_date_of_mutant(states, code, existing) ==
    IF states[code] # None THEN states[code]
    ELSE IF existing # <<>> THEN MaxDate(DatesIn(existing))
         ELSE None

last_date_of(states, code, existing) ==
    IF states[code] # None THEN states[code]
    ELSE IF existing # <<>> /\ ValidDates(existing) # {}
         THEN MaxDate(ValidDates(existing))
         ELSE None

plan_start_date_mutant(last) == IsoDate(0)

plan_start_date_same_day(last) == IF last # None THEN last ELSE IsoDate(0)

plan_start_date(last) ==
    IF last # None
    THEN IF HasQ(last) THEN last ELSE next_day(last)
    ELSE IsoDate(0)        \* the sentinel "1900-01-01", before every date

\* Lines 172-174: the merge.
new_unique_mutant(existing, new) ==
    SelectSeq(new, LAMBDA o : o.date \notin ValidDates(existing))

new_unique_no_dedup(existing, new) ==
    SelectSeq(new, LAMBDA o : HasDash(o.date))

new_unique(existing, new) ==
    SelectSeq(new, LAMBDA o : /\ HasDash(o.date)
                              /\ o.date \notin ValidDates(existing))

all_obs_mutant(existing, new) == new_unique(existing, new)

all_obs_new_first(existing, new) == new_unique(existing, new) \o existing

all_obs(existing, new) == existing \o new_unique(existing, new)

VARIABLES
    store,              \* durable: code -> rows of raw/series/<code>.json
    pstate,             \* durable: the "series_data" state blob
    pc,                 \* "idle", or in run(): "loop" (line 124),
                        \* "fetched" (line 156), "saved" (line 184)
    outcome,            \* how the last run ended
    runs,               \* runs started
    idx,                \* position of the loop in series_list
    series_states,      \* memory: code -> last_date
    fetched_series,     \* memory: set of codes
    existing_obs,       \* locals of the current iteration
    new_obs,
    start_date,
    branch,             \* which path the last finished iteration took
    prev_last_date,     \* series_states entry that line 188 replaced
    updated_count,
    skipped_count,
    inaccessible_count,
    budget_spent,       \* time.time() - start_time >= GH_ACTIONS_MAX_RUN_SECONDS
    store_writes,       \* history: save_series_data calls of this process
    seen,               \* history: code -> valid dates merged so far
    honoured,           \* history: the last batch held no valid date
                        \* before start_date
    upstream_news,      \* history: "new" once this run fetched a valid date
                        \* not merged before, else "repeats" once it
                        \* fetched a merged one, else "none"
    dirty,              \* history: this run changed the durable state
    committed           \* history: code -> what this run persisted for it

\* The transform node (src/src/nodes/datasets.py) and what it works on.
VARIABLES
    mapping,            \* durable: mappings/datasets.json, "datasets"
    has_mapping,        \* durable: mappings/datasets.json exists
    tstate,             \* durable: the "datasets" state blob
    sink,               \* durable: dataset id -> rows of the uploaded table
    tpc,                \* "idle", or in run(): "datasets" (line 259)
    toutcome,           \* how the last transform run ended
    truns,              \* transform runs started
    dataset_filter,     \* argument of the running transform
    ingest_state,       \* memory: the ingest state loaded at line 223
    dsidx,              \* position of the loop in the datasets
    table,              \* memory: result of the last transform_dataset call
    success_count,
    skip_count,
    uploads,            \* history: dataset -> upload_data calls so far
    transformed_store,  \* history: the raw series files as they were when
                        \* the last transform pass completed
    nd_date,            \* normalize_date: argument date
    nd_frequency,       \* normalize_date: argument frequency
    nd_result           \* normalize_date: returned string, None before

\* The groups node (src/src/nodes/groups.py).
VARIABLES
    gpc,                \* "idle", or in run(): "gather" (line 83),
                        \* "saved" (line 95)
    permits,            \* asyncio.Semaphore: its value
    task,               \* group -> where get_group_details_async is
    groups_raw          \* durable: the groups in raw/groups.json

sync_vars == <<store, pstate, pc, outcome, runs, idx, series_states,
               fetched_series, existing_obs, new_obs, start_date, branch,
               prev_last_date, updated_count, skipped_count,
               inaccessible_count, budget_spent, store_writes,
               seen, honoured, upstream_news, dirty, committed>>

transform_vars == <<mapping, has_mapping, tstate, sink, tpc, toutcome,
                    truns, dataset_filter, ingest_state, dsidx, table,
                    success_count, skip_count, uploads, transformed_store,
                    nd_date, nd_frequency, nd_result>>

groups_vars == <<gpc, permits, task, groups_raw>>

vars == <<sync_vars, transform_vars, groups_vars>>

durable == <<store, pstate>>

\* What run() of the sync loop holds in memory, and its history.
sync_memory == <<pc, outcome, runs, idx, series_states, fetched_series,
                 existing_obs, new_obs, start_date, branch, prev_last_date,
                 updated_count, skipped_count, inaccessible_count,
                 budget_spent, store_writes, seen, honoured, upstream_news,
                 dirty, committed>>

counters == <<updated_count, skipped_count, inaccessible_count>>

locals == <<existing_obs, new_obs, start_date>>

history == <<seen, honoured, upstream_news, dirty, committed>>

NoCommit == [obs |-> <<>>, last_date |-> None]

EmptyState == [series_states |-> [c \in Codes |-> None], fetched_series |-> {}]

\* Files a previous deployment may have left: nothing, or a stray marker row
\* (the rows lines 138-139 and 172 filter out of existing_obs).
LegacyFiles == {<<>>, <<[date |-> Revisions, value |-> 0]>>}

\* No run has started: the memory of run() holds nothing yet.
InitMemory ==
    /\ pc = "idle"
    /\ outcome = "none"
    /\ runs = 0
    /\ idx = 1
    /\ series_states = EmptyState.series_states
    /\ fetched_series = {}
    /\ existing_obs = <<>>
    /\ new_obs = <<>>
    /\ start_date = None
    /\ branch = "none"
    /\ prev_last_date = None
    /\ updated_count = 0
    /\ skipped_count = 0
    /\ inaccessible_count = 0
    /\ budget_spent = FALSE
    /\ store_writes = 0
    /\ seen = [c \in Codes |-> {}]
    /\ honoured = TRUE
    /\ upstream_news = "none"
    /\ dirty = FALSE
    /\ committed = [c \in Codes |-> NoCommit]

\* The "datasets" state blob before the first transform: load_state gives {}.
EmptyLedger ==
    [transformed_series |-> {},
     last_series_states |-> [c \in Codes |-> None]]

\* transform_dataset has not returned a table.
NoTable == [absent |-> TRUE, rows |-> <<>>]

\* normalize_date has not returned.
NotReturned == [returned |-> FALSE, value |-> <<>>]

\* No transform run has started: the memory of datasets.run() holds nothing.
TransformMemoryInit ==
    /\ tpc = "idle"
    /\ toutcome = "none"
    /\ truns = 0
    /\ dataset_filter = <<>>
    /\ ingest_state = EmptyState
    /\ dsidx = 1
    /\ table = NoTable
    /\ success_count = 0
    /\ skip_count = 0
    /\ uploads = [i \in DOMAIN mapping |-> 0]
    /\ transformed_store = store

\* normalize_date is not being called.
NormalizeAtRest ==
    /\ nd_date = <<>>
    /\ nd_frequency = ""
    /\ nd_result = NotReturned

\* The groups node has never run.
GroupsAtRest ==
    /\ gpc = "idle"
    /\ permits = 0
    /\ task = <<>>
    /\ groups_raw = {}

\* The transform node has never run and has no dataset to work on.
TransformAtRest ==
    /\ mapping = <<>>
    /\ has_mapping = TRUE
    /\ tstate = EmptyLedger
    /\ sink = [i \in DOMAIN mapping |-> <<>>]
    /\ TransformMemoryInit
    /\ NormalizeAtRest

Init ==
    /\ store \in [Codes -> LegacyFiles]
    /\ pstate = EmptyState
    /\ InitMemory
    /\ TransformAtRest
    /\ GroupsAtRest

\* load_series_data / save_series_data (lines 92-102)
load_series_data(code) == store[code]

save_series_data_mutant(code, data) ==
    store' = [store EXCEPT ![code] = Tail(data)]

save_series_data(code, data) == store' = [store EXCEPT ![code] = data]

\* save_state("series_data", {...}) (lines 194-197)
save_state(states, fetched) ==
    pstate' = [series_states |-> states, fetched_series |-> fetched]

\* The locals are dead once an iteration or the run ends: the next
\* iteration assigns each before reading it.
ClearLocals ==
    /\ existing_obs' = <<>>
    /\ new_obs' = <<>>
    /\ start_date' = None

\* Lines 105-122: a run starts, loading the state blob.
StartRun ==
    /\ pc = "idle"
    /\ runs < MaxRuns
    /\ runs' = runs + 1
    /\ pc' = "loop"
    /\ outcome' = "running"
    /\ idx' = 1
    /\ series_states' = pstate.series_states
    /\ fetched_series' = pstate.fetched_series
    /\ ClearLocals
    /\ branch' = "none"
    /\ prev_last_date' = None
    /\ updated_count' = 0
    /\ skipped_count' = 0
    /\ inaccessible_count' = 0
    /\ budget_spent' = FALSE
    /\ store_writes' = 0
    /\ honoured' = TRUE
    /\ upstream_news' = "none"
    /\ dirty' = FALSE
    /\ committed' = [c \in Codes |-> NoCommit]
    /\ UNCHANGED <<transform_vars, groups_vars>>
    /\ UNCHANGED <<store, pstate, seen>>

series_code == series_list[idx]

AtSeries == pc = "loop" /\ idx <= Len(series_list)

\* Wall-clock time passes GH_ACTIONS_MAX_RUN_SECONDS since start_time
\* (lines 108, 126), at any point of a run.
ClockPasses ==
    /\ pc \in {"loop", "fetched", "saved"}
    /\ ~budget_spent
    /\ budget_spent' = TRUE
    /\ UNCHANGED <<transform_vars, groups_vars>>
    /\ UNCHANGED <<durable, pc, outcome, runs, idx, series_states,
                   fetched_series, locals, branch, prev_last_date, counters,
                   store_writes, history>>

\* Lines 126-128: the time budget is used up; the run returns True.
TimeBudgetExhaustedMutant ==
    /\ AtSeries
    /\ budget_spent
    /\ pc' = "idle"
    /\ outcome' = "failed"
    /\ budget_spent' = FALSE
    /\ UNCHANGED <<transform_vars, groups_vars>>
    /\ UNCHANGED <<durable, runs, idx, series_states, fetched_series, locals,
                   branch, prev_last_date, counters, store_writes, history>>

TimeBudgetExhausted ==
    /\ AtSeries
    /\ budget_spent
    /\ pc' = "idle"
    /\ outcome' = "more"
    /\ budget_spent' = FALSE
    /\ UNCHANGED <<transform_vars, groups_vars>>
    /\ UNCHANGED <<durable, runs, idx, series_states, fetched_series, locals,
                   branch, prev_last_date, counters, store_writes, history>>

\* Lines 130-154, common to every outcome of the fetch: load the file, plan.
Plan ==
    /\ existing_obs' = load_series_data(series_code)
    /\ start_date' =
         plan_start_date(last_date_of(series_states, series_code,
                                      load_series_data(series_code)))

\* Lines 154-158: the series is inaccessible (403/404): fetch returns None.
InaccessibleMutant ==
    /\ AtSeries
    /\ ~budget_spent
    /\ ClearLocals
    /\ branch' = "inaccessible"
    /\ inaccessible_count' = inaccessible_count + 1
    /\ fetched_series' = fetched_series \cup {series_code}
    /\ idx' = idx + 1
    /\ UNCHANGED <<transform_vars, groups_vars>>
    /\ UNCHANGED <<durable, pc, outcome, runs, series_states,
                   prev_last_date, updated_count, skipped_count, budget_spent,
                   store_writes, history>>

Inaccessible ==
    /\ AtSeries
    /\ ~budget_spent
    /\ ClearLocals
    /\ branch' = "inaccessible"
    /\ inaccessible_count' = inaccessible_count + 1
    /\ idx' = idx + 1
    /\ UNCHANGED <<transform_vars, groups_vars>>
    /\ UNCHANGED <<durable, pc, outcome, runs, series_states, fetched_series,
                   prev_last_date, updated_count, skipped_count, budget_spent,
                   store_writes, history>>

\* The process ends abnormally: its memory is gone.
WipeMemory ==
    /\ idx' = 1
    /\ series_states' = EmptyState.series_states
    /\ fetched_series' = {}
    /\ ClearLocals
    /\ branch' = "none"
    /\ prev_last_date' = None
    /\ updated_count' = 0
    /\ skipped_count' = 0
    /\ inaccessible_count' = 0
    /\ budget_spent' = FALSE
    /\ store_writes' = 0

\* Lines 57 and 64: the fetch raises; the exception ends the run.
FetchFailsMutant ==
    /\ AtSeries
    /\ ~budget_spent
    /\ ClearLocals
    /\ outcome' = "failed"
    /\ idx' = idx + 1
    /\ UNCHANGED <<transform_vars, groups_vars>>
    /\ UNCHANGED <<durable, pc, runs, series_states, fetched_series, branch,
                   prev_last_date, counters, budget_spent, store_writes,
                   history>>

FetchFails ==
    /\ AtSeries
    /\ ~budget_spent
    /\ WipeMemory
    /\ pc' = "idle"
    /\ outcome' = "failed"
    /\ UNCHANGED <<transform_vars, groups_vars>>
    /\ UNCHANGED <<durable, runs, history>>

\* History: what the fetches of this run have brought so far, given the
\* valid dates that earlier iterations merged for each series.
NewsAfter(code, batch) ==
    IF \E d \in ValidDates(batch) : d \notin seen[code] THEN "new"
    ELSE IF ValidDates(batch) # {} /\ upstream_news = "none" THEN "repeats"
    ELSE upstream_news

\* Lines 130-154: the fetch returns a list of rows.
FetchReturns(batch) ==
    /\ AtSeries
    /\ ~budget_spent
    /\ Plan
    /\ new_obs' = batch
    /\ pc' = "fetched"
    /\ honoured' = \A d \in ValidDates(batch) : StrLeq(start_date', d)
    /\ upstream_news' = NewsAfter(series_code, batch)
    /\ UNCHANGED <<transform_vars, groups_vars>>
    /\ UNCHANGED <<durable, outcome, runs, idx, series_states, fetched_series,
                   branch, prev_last_date, counters, budget_spent,
                   store_writes, seen, dirty, committed>>

Merged == seen' = [seen EXCEPT ![series_code] = @ \cup ValidDates(new_obs)]

\* Lines 160-164 and 176-179: nothing new; only the in-memory fetched set grows.
SkipSeriesMutant ==
    /\ pc = "fetched"
    /\ new_unique(existing_obs, new_obs) = <<>>
    /\ Merged
    /\ branch' = (IF new_obs = <<>> THEN "empty" ELSE "duplicate")
    /\ skipped_count' = skipped_count + 1
    /\ fetched_series' = fetched_series \cup {series_code}
    /\ series_states' =
         IF ValidDates(new_obs) # {}
         THEN [series_states EXCEPT ![series_code] = MaxDate(ValidDates(new_obs))]
         ELSE series_states
    /\ save_state(series_states', fetched_series')
    /\ idx' = idx + 1
    /\ pc' = "loop"
    /\ ClearLocals
    /\ dirty' = (dirty \/ pstate' # pstate)
    /\ UNCHANGED <<transform_vars, groups_vars>>
    /\ UNCHANGED <<store, outcome, runs, prev_last_date, updated_count,
                   inaccessible_count, budget_spent, store_writes, honoured,
                   upstream_news, committed>>

SkipSeriesRewrites ==
    /\ pc = "fetched"
    /\ new_unique(existing_obs, new_obs) = <<>>
    /\ Merged
    /\ save_series_data(series_code, all_obs(existing_obs, new_obs))
    /\ store_writes' = store_writes + 1
    /\ branch' = (IF new_obs = <<>> THEN "empty" ELSE "duplicate")
    /\ skipped_count' = skipped_count + 1
    /\ fetched_series' = fetched_series \cup {series_code}
    /\ idx' = idx + 1
    /\ pc' = "loop"
    /\ ClearLocals
    /\ UNCHANGED <<transform_vars, groups_vars>>
    /\ UNCHANGED <<pstate, outcome, runs, series_states, prev_last_date,
                   updated_count, inaccessible_count, budget_spent, honoured,
                   upstream_news, dirty, committed>>

SkipSeries ==
    /\ pc = "fetched"
    /\ new_unique(existing_obs, new_obs) = <<>>
    /\ Merged
    /\ branch' = (IF new_obs = <<>> THEN "empty" ELSE "duplicate")
    /\ skipped_count' = skipped_count + 1
    /\ fetched_series' = fetched_series \cup {series_code}
    /\ idx' = idx + 1
    /\ pc' = "loop"
    /\ ClearLocals
    /\ UNCHANGED <<transform_vars, groups_vars>>
    /\ UNCHANGED <<durable, outcome, runs, series_states, prev_last_date,
                   updated_count, inaccessible_count, budget_spent,
                   store_writes, honoured, upstream_news, dirty, committed>>

\* Lines 166-182: there are new unique rows; the series file is rewritten.
SaveSeries ==
    /\ pc = "fetched"
    /\ new_unique(existing_obs, new_obs) # <<>>
    /\ Merged
    /\ save_series_data(series_code, all_obs(existing_obs, new_obs))
    /\ store_writes' = store_writes + 1
    /\ pc' = "saved"
    /\ dirty' = (dirty \/ store' # store)
    /\ UNCHANGED <<transform_vars, groups_vars>>
    /\ UNCHANGED <<pstate, outcome, runs, idx, series_states, fetched_series,
                   locals, branch, prev_last_date, counters, budget_spent,
                   honoured, upstream_news, committed>>

\* Lines 184-188: the new last_date of the series.
new_states_mutant ==
    [series_states EXCEPT ![series_code] = MaxDate(DatesIn(new_obs))]

new_states_alone ==
    [c \in Codes |->
        IF c # series_code THEN None
        ELSE IF ValidDates(new_obs) # {}
             THEN MaxDate(ValidDates(new_obs)) ELSE series_states[c]]

new_states ==
    IF ValidDates(new_obs) # {}
    THEN [series_states EXCEPT ![series_code] = MaxDate(ValidDates(new_obs))]
    ELSE series_states

\* Lines 184-199: the state is updated in memory and written out.
SaveStateMutant ==
    /\ pc = "saved"
    /\ prev_last_date' = series_states[series_code]
    /\ series_states' = new_states
    /\ fetched_series' = fetched_series \cup {series_code}
    /\ updated_count' = updated_count + 1
    /\ committed' = [committed EXCEPT ![series_code] =
                        [obs |-> all_obs(existing_obs, new_obs),
                         last_date |-> series_states'[series_code]]]
    /\ branch' = "updated"
    /\ idx' = idx + 1
    /\ pc' = "loop"
    /\ ClearLocals
    /\ UNCHANGED <<transform_vars, groups_vars>>
    /\ UNCHANGED <<durable, outcome, runs, skipped_count,
                   inaccessible_count, budget_spent, store_writes, seen,
                   honoured, upstream_news, dirty>>

SaveState ==
    /\ pc = "saved"
    /\ prev_last_date' = series_states[series_code]
    /\ series_states' = new_states
    /\ fetched_series' = fetched_series \cup {series_code}
    /\ save_state(series_states', fetched_series')
    /\ updated_count' = updated_count + 1
    /\ committed' = [committed EXCEPT ![series_code] =
                        [obs |-> all_obs(existing_obs, new_obs),
                         last_date |-> series_states'[series_code]]]
    /\ branch' = "updated"
    /\ idx' = idx + 1
    /\ pc' = "loop"
    /\ ClearLocals
    /\ dirty' = (dirty \/ pstate' # pstate)
    /\ UNCHANGED <<transform_vars, groups_vars>>
    /\ UNCHANGED <<store, outcome, runs, skipped_count,
                   inaccessible_count, budget_spent, store_writes, seen,
                   honoured, upstream_news>>

\* Lines 201-202: every series was visited; the run returns False.
FinishRun ==
    /\ pc = "loop"
    /\ idx > Len(series_list)
    /\ pc' = "idle"
    /\ outcome' = "complete"
    /\ budget_spent' = FALSE
    /\ UNCHANGED <<transform_vars, groups_vars>>
    /\ UNCHANGED <<durable, runs, idx, series_states, fetched_series, locals,
                   branch, prev_last_date, counters, store_writes, history>>

\* The process is killed inside the loop, at any line.
Crash ==
    /\ pc \in {"loop", "fetched", "saved"}
    /\ outcome' = (IF pc = "saved" THEN "crashed_in_persist" ELSE "crashed")
    /\ pc' = "idle"
    /\ WipeMemory
    /\ UNCHANGED <<transform_vars, groups_vars>>
    /\ UNCHANGED <<durable, runs, history>>

Next ==
    \/ StartRun
    \/ ClockPasses
    \/ TimeBudgetExhausted
    \/ Inaccessible
    \/ FetchFails
    \/ \E batch \in Batches(runs) : FetchReturns(batch)
    \/ SkipSeries
    \/ SaveSeries
    \/ SaveState
    \/ FinishRun
    \/ Crash

Spec == Init /\ [][Next]_vars

\* The same loop fed by an upstream whose cells are not all numbers.
NextWithText ==
    \/ StartRun
    \/ ClockPasses
    \/ TimeBudgetExhausted
    \/ Inaccessible
    \/ FetchFails
    \/ \E batch \in BatchesWithText(runs) : FetchReturns(batch)
    \/ SkipSeries
    \/ SaveSeries
    \/ SaveState
    \/ FinishRun
    \/ Crash

SpecWithText == Init /\ [][NextWithText]_vars

(***************************************************************************)
(* The planner (lines 130-152) on any state blob and any series files an   *)
(* earlier deployment may have left, against an upstream that has nothing  *)
(* new: every fetch returns the empty list.                                *)
(***************************************************************************)
MaxStored == 2    \* a series file left behind holds at most MaxStored rows

\* last_date values a state blob may hold: an ISO date, or a quarter code
\* (the case line 146 handles).
Watermarks ==
    {None} \cup {IsoDate(n) : n \in 1..MaxDay} \cup {QuarterCode(1)}

\* Rows a series file may hold: rows with an ISO date that the loop stored,
\* and stray marker rows.
StoredRows ==
    [date : {IsoDate(n) : n \in 1..MaxDay} \cup {Revisions}, value : {0}]

StoredFiles == SeqsUpTo(StoredRows, MaxStored)

PlanInit ==
    /\ store \in [Codes -> StoredFiles]
    /\ pstate \in [series_states : [Codes -> Watermarks], fetched_series : {{}}]
    /\ InitMemory
    /\ TransformAtRest
    /\ GroupsAtRest

\* Lines 130-152: the file is loaded and the start date computed.
PlanSeriesMutant ==
    /\ AtSeries
    /\ ~budget_spent
    /\ Plan
    /\ series_states' =
         [series_states EXCEPT ![series_code] =
             last_date_of(series_states, series_code,
                          load_series_data(series_code))]
    /\ pc' = "planned"
    /\ UNCHANGED <<transform_vars, groups_vars>>
    /\ UNCHANGED <<durable, outcome, runs, idx, fetched_series,
                   new_obs, branch, prev_last_date, counters, budget_spent,
                   store_writes, history>>

PlanSeries ==
    /\ AtSeries
    /\ ~budget_spent
    /\ Plan
    /\ pc' = "planned"
    /\ UNCHANGED <<transform_vars, groups_vars>>
    /\ UNCHANGED <<durable, outcome, runs, idx, series_states, fetched_series,
                   new_obs, branch, prev_last_date, counters, budget_spent,
                   store_writes, history>>

\* Lines 154-160: the fetch returns the empty list.
FetchEmpty ==
    /\ pc = "planned"
    /\ new_obs' = <<>>
    /\ pc' = "fetched"
    /\ UNCHANGED <<transform_vars, groups_vars>>
    /\ UNCHANGED <<durable, outcome, runs, idx, series_states, fetched_series,
                   existing_obs, start_date, branch, prev_last_date, counters,
                   budget_spent, store_writes, history>>

PlanNext ==
    \/ StartRun
    \/ PlanSeries
    \/ FetchEmpty
    \/ SkipSeries
    \/ FinishRun

PlanSpec == PlanInit /\ [][PlanNext]_vars

(***************************************************************************)
(* The transform node (src/src/nodes/datasets.py).  Here a date is the     *)
(* Python string itself, a sequence of characters, because normalize_date  *)
(* and test_wide_table look at its characters.                             *)
(***************************************************************************)
MaxMonth == 12    \* ISO dates with month 01..MaxMonth are normalized
MaxYears == 1     \* years 2021 .. 2021 + MaxYears - 1

Digits == <<"0", "1", "2", "3", "4", "5", "6", "7", "8", "9">>

\* str.isdigit on one character; int() of one digit; str() of 0..9
IsDigit(c) == \E i \in DOMAIN Digits : Digits[i] = c

DigitValue(c) == (CHOOSE i \in DOMAIN Digits : Digits[i] = c) - 1

DigitChar(k) == Digits[k + 1]

\* The characters that occur, in the order of their code points.
Alphabet ==
    <<"\n", "-">> \o Digits
        \o <<"E", "I", "N", "O", "Q", "R", "S", "V", "a", "d", "e", "t">>

Ord(c) == CHOOSE i \in DOMAIN Alphabet : Alphabet[i] = c

\* a < b on Python strings
StringLess(a, b) ==
    \E i \in 1..(Len(a) + 1) :
        /\ i <= Len(b) + 1
        /\ \A j \in 1..(i - 1) : a[j] = b[j]
        /\ \/ i = Len(a) + 1 /\ i <= Len(b)
           \/ i <= Len(a) /\ i <= Len(b) /\ Ord(a[i]) < Ord(b[i])

\* f"{n:02d}", f"{n:04d}"
Pad2(n) == <<DigitChar(n \div 10), DigitChar(n % 10)>>

Pad4(n) == Pad2(n \div 100) \o Pad2(n % 100)

\* "YYYY-MM-DD" and "YYYYQn" as the upstream writes them
iso_string(y, m, d) == Pad4(y) \o <<"-">> \o Pad2(m) \o <<"-">> \o Pad2(d)

quarter_string(y, q) == Pad4(y) \o <<"Q", DigitChar(q)>>

\* The subject of a pattern that ends in $: the string, or the string without
\* its last character when that is a newline.
UpToDollar(s) ==
    {s} \cup (IF s # <<>> /\ s[Len(s)] = "\n"
              THEN {SubSeq(s, 1, Len(s) - 1)} ELSE {})

AllDigits(s, from, to) == \A i \in from..to : IsDigit(s[i])

\* re.match(r'^(\d{4})Q([1-4])$', date)
quarterly_match(date) ==
    \E t \in UpToDollar(date) :
        /\ Len(t) = 6
        /\ AllDigits(t, 1, 4)
        /\ t[5] = "Q"
        /\ t[6] \in {"1", "2", "3", "4"}

\* re.match(r'^(\d{4})-(\d{2})-(\d{2})$', date)
daily_match(date) ==
    \E t \in UpToDollar(date) :
        /\ Len(t) = 10
        /\ AllDigits(t, 1, 4) /\ t[5] = "-"
        /\ AllDigits(t, 6, 7) /\ t[8] = "-"
        /\ AllDigits(t, 9, 10)

\* The groups of the two patterns.
year_of(date) == SubSeq(date, 1, 4)

month_of(date) == SubSeq(date, 6, 7)

\* int(month)
int_of(digits) == 10 * DigitValue(digits[1]) + DigitValue(digits[2])

\* f"{n}" for 0 <= n <= 99
str_of(n) == IF n < 10 THEN <<DigitChar(n)>> ELSE Pad2(n)

\* Lines 20-53.
normalize_date(date, frequency) ==
    IF date = <<>> THEN date
    ELSE IF quarterly_match(date)
    THEN year_of(date) \o <<"-", "Q", date[6]>>
    ELSE IF daily_match(date)
    THEN CASE frequency = "daily" -> date
           [] frequency = "monthly" -> year_of(date) \o <<"-">> \o month_of(date)
           [] frequency = "quarterly" ->
                year_of(date) \o <<"-", "Q">>
                    \o str_of((int_of(month_of(date)) - 1) \div 3 + 1)
           [] frequency \in {"annual", "biennial", "triennial"} -> year_of(date)
           [] OTHER -> date
    ELSE date

\* Strings that are not dates, and dates in the normalized forms.
Revisions_string == <<"R", "E", "V", "I", "S", "I", "O", "N", "S">>

date_string == <<"d", "a", "t", "e">>

Years == 2021..(2021 + MaxYears - 1)

IsoStrings == {iso_string(y, m, 15) : y \in Years, m \in 1..MaxMonth}

QuarterStrings == {quarter_string(y, q) : y \in Years, q \in 1..4}

OtherStrings ==
    {<<>>, Revisions_string, date_string, Pad4(2021),
     Pad4(2021) \o <<"-">> \o Pad2(7),
     Pad4(2021) \o <<"-", "Q", "3">>,
     quarter_string(2021, 5)}

\* The arguments normalize_date is called with: any of these strings, also
\* with a newline after it.
NormalizeDates ==
    LET plain == IsoStrings \cup QuarterStrings \cup OtherStrings
    IN plain \cup {s \o <<"\n">> : s \in plain}

Frequencies ==
    {"daily", "monthly", "quarterly", "annual", "biennial", "triennial",
     "weekly", ""}

NormalizeInit ==
    /\ store = [c \in Codes |-> <<>>]
    /\ pstate = EmptyState
    /\ InitMemory
    /\ mapping = <<>>
    /\ has_mapping = TRUE
    /\ tstate = EmptyLedger
    /\ sink = [i \in DOMAIN mapping |-> <<>>]
    /\ TransformMemoryInit
    /\ nd_date \in NormalizeDates
    /\ nd_frequency \in Frequencies
    /\ nd_result = NotReturned
    /\ GroupsAtRest

\* normalize_date(nd_date, nd_frequency) is called and returns.
NormalizeCall ==
    /\ ~nd_result.returned
    /\ nd_result' =
         [returned |-> TRUE, value |-> normalize_date(nd_date, nd_frequency)]
    /\ UNCHANGED <<sync_vars, groups_vars, mapping, has_mapping, tstate, sink,
                   tpc, toutcome, truns, dataset_filter, ingest_state, dsidx,
                   table, success_count, skip_count, uploads,
                   transformed_store, nd_date, nd_frequency>>

NormalizeNext == NormalizeCall

NormalizeSpec == NormalizeInit /\ [][NormalizeNext]_vars

(***************************************************************************)
(* transform_dataset, test_wide_table and run() of the transform node.     *)
(* A stored observation is [date, value] with the date a Python string; a  *)
(* dataset of the mapping is [id, frequency, series], the series in the    *)
(* order of the JSON object, each [code, column].  The columns of one      *)
(* dataset are distinct: they are the field names of one schema.           *)
(***************************************************************************)
MaxTransformRuns == 2    \* number of transform runs started

\* dates[:10], the sample test_wide_table looks at
SampleSize == 10

\* A cell of the wide table without a value: None in the row, null in the
\* table.  Also obs.get("value") of a row without a value.
Null == -2

\* dataset_id.startswith(dataset_filter)
StartsWith(s, prefix) ==
    Len(prefix) <= Len(s) /\ SubSeq(s, 1, Len(prefix)) = prefix

\* Lines 61-66, files being the raw series files (no file reads as []).
load_raw_series(files, code) == files[code]

\* Lines 154-165: the rows of raw_data that reach line 167.
is_written(obs) ==
    /\ obs.date # <<>> /\ obs.value # Null
    /\ IsNumeric(obs.value)

\* Lines 140-167 for one series: the assignments date_rows[date][column] =
\* value it makes, in stored order.
series_writes(files, series_config, frequency) ==
    LET raw_data == load_raw_series(files, series_config.code)
        kept == SelectSeq(raw_data, is_written)
    IN [i \in 1..Len(kept) |->
           [date |-> normalize_date(kept[i].date, frequency),
            column |-> series_config.column,
            value |-> kept[i].value]]

\* The assignments of the whole loop, the series in mapping order.
RECURSIVE writes(_, _, _)
writes(files, series, frequency) ==
    IF series = <<>> THEN <<>>
    ELSE series_writes(files, Head(series), frequency)
             \o writes(files, Tail(series), frequency)

\* date_rows[date].get(col) after the loop: what the last assignment left.
cell_mutant(ws, date, col) ==
    LET hits == {i \in DOMAIN ws : ws[i].date = date /\ ws[i].column = col}
    IN IF hits = {} THEN Null
       ELSE ws[CHOOSE i \in hits : \A j \in hits : i <= j].value

cell(ws, date, col) ==
    LET hits == {i \in DOMAIN ws : ws[i].date = date /\ ws[i].column = col}
    IN IF hits = {} THEN Null
       ELSE ws[CHOOSE i \in hits : \A j \in hits : j <= i].value

\* sorted(date_rows.keys())
RECURSIVE sorted_mutant(_)
sorted_mutant(keys) ==
    IF keys = {} THEN <<>>
    ELSE LET last == CHOOSE x \in keys :
                         \A y \in keys \ {x} : StringLess(y, x)
         IN <<last>> \o sorted_mutant(keys \ {last})

RECURSIVE sorted(_)
sorted(keys) ==
    IF keys = {} THEN <<>>
    ELSE LET first == CHOOSE x \in keys :
                          \A y \in keys \ {x} : StringLess(x, y)
         IN <<first>> \o sorted(keys \ {first})

\* Lines 120-196.  The table is its rows: a date and a cell per column.
transform_dataset_empty_table(files, config) ==
    LET ws == writes(files, config.series, config.frequency)
        all_columns == {config.series[i].column : i \in DOMAIN config.series}
        dates == sorted({ws[i].date : i \in DOMAIN ws})
    IN [absent |-> FALSE,
        rows |-> [i \in 1..Len(dates) |->
                     [date |-> dates[i],
                      cells |-> [col \in all_columns |->
                                    cell(ws, dates[i], col)]]]]

transform_dataset_found_columns(files, config) ==
    LET ws == writes(files, config.series, config.frequency)
        date_rows == {ws[i].date : i \in DOMAIN ws}
        all_columns ==
            {config.series[i].column :
                 i \in {j \in DOMAIN config.series :
                            load_raw_series(files, config.series[j].code)
                                # <<>>}}
        dates == sorted(date_rows)
    IN IF date_rows = {} THEN NoTable
       ELSE [absent |-> FALSE,
             rows |-> [i \in 1..Len(dates) |->
                          [date |-> dates[i],
                           cells |-> [col \in all_columns |->
                                         cell(ws, dates[i], col)]]]]

transform_dataset_rows_first(files, config) ==
    LET ws == writes(files, config.series, config.frequency)
        dated == {<<k, i>> \in (DOMAIN config.series) \X (1..MaxStored) :
                      /\ i <= Len(load_raw_series(files, config.series[k].code))
                      /\ load_raw_series(files, config.series[k].code)[i].date
                             # <<>>}
        date_rows ==
            {normalize_date(
                 load_raw_series(files, config.series[p[1]].code)[p[2]].date,
                 config.frequency) : p \in dated}
        all_columns == {config.series[i].column : i \in DOMAIN config.series}
        dates == sorted(date_rows)
    IN IF date_rows = {} THEN NoTable
       ELSE [absent |-> FALSE,
             rows |-> [i \in 1..Len(dates) |->
                          [date |-> dates[i],
                           cells |-> [col \in all_columns |->
                                         cell(ws, dates[i], col)]]]]

transform_dataset(files, config) ==
    LET ws == writes(files, config.series, config.frequency)
        date_rows == {ws[i].date : i \in DOMAIN ws}
        all_columns == {config.series[i].column : i \in DOMAIN config.series}
        dates == sorted(date_rows)
    IN IF date_rows = {} THEN NoTable
       ELSE [absent |-> FALSE,
             rows |-> [i \in 1..Len(dates) |->
                          [date |-> dates[i],
                           cells |-> [col \in all_columns |->
                                         cell(ws, dates[i], col)]]]]

\* Lines 82-107: the assertions on one date of the sample.
date_passes(d, frequency) ==
    CASE frequency = "daily" -> Len(d) = 10 /\ d[5] = "-" /\ d[8] = "-"
      [] frequency = "monthly" -> Len(d) = 7 /\ d[5] = "-"
      [] frequency = "quarterly" -> \E i \in DOMAIN d : d[i] = "Q"
      [] frequency = "annual" -> Len(d) = 4 /\ AllDigits(d, 1, 4)
      [] OTHER -> TRUE

\* Lines 68-118: TRUE when no assertion fails.  validate() (line 76) passes
\* on what transform_dataset builds: the columns of the mapping, a date in
\* every row, at least one row.
test_wide_table(rows, config) ==
    /\ \A i \in DOMAIN rows \cap 1..SampleSize :
           date_passes(rows[i].date, config.frequency)
    /\ \E i \in DOMAIN rows :
           \E col \in DOMAIN rows[i].cells : rows[i].cells[col] # Null

\* upload_data(table, dataset_id, mode="merge", merge_key="date"), line 279:
\* the rows of the sink whose date the table does not have, and the table.
DatesOf(rows) == {rows[i].date : i \in DOMAIN rows}

Upsert(old, rows) ==
    SelectSeq(old, LAMBDA r : r.date \notin DatesOf(rows)) \o rows

\* Lines 226-244: run() returns at line 242.
new_series == pstate.fetched_series \ tstate.transformed_series

changed_series ==
    {code \in Codes :
         /\ pstate.series_states[code] # None
         /\ pstate.series_states[code] # tstate.last_series_states[code]}

run_is_skipped_mutant(filter) == new_series = {} /\ changed_series = {}

run_is_skipped(filter) ==
    new_series = {} /\ filter = <<>> /\ changed_series = {}

\* The arguments of run(): no filter (None, or ""), or a prefix.
Filters == {<<>>, <<"r">>, <<"r", "q">>, <<"x">>}

\* Lines 222-242: nothing changed since the last transform, run() returns.
TransformSkipped ==
    /\ tpc = "idle" /\ truns < MaxTransformRuns
    /\ \E filter \in Filters :
         /\ run_is_skipped(filter)
         /\ dataset_filter' = filter
    /\ truns' = truns + 1
    /\ ingest_state' = pstate
    /\ toutcome' = "skipped"
    /\ UNCHANGED <<sync_vars, groups_vars, mapping, has_mapping, tstate, sink,
                   tpc, dsidx, table, success_count, skip_count, uploads,
                   transformed_store, nd_date, nd_frequency, nd_result>>

\* Lines 222-257: the run goes on to the datasets of the mapping.
TransformBegins ==
    /\ tpc = "idle" /\ truns < MaxTransformRuns
    /\ has_mapping
    /\ \E filter \in Filters :
         /\ ~run_is_skipped(filter)
         /\ dataset_filter' = filter
    /\ truns' = truns + 1
    /\ ingest_state' = pstate
    /\ toutcome' = "running"
    /\ tpc' = "datasets"
    /\ dsidx' = 1
    /\ table' = NoTable
    /\ success_count' = 0
    /\ skip_count' = 0
    /\ UNCHANGED <<sync_vars, groups_vars, mapping, has_mapping, tstate, sink,
                   uploads, transformed_store, nd_date, nd_frequency,
                   nd_result>>

\* The dataset the loop at line 259 is at.
AtDataset == tpc = "datasets" /\ dsidx <= Len(mapping)

Selected ==
    dataset_filter = <<>> \/ StartsWith(mapping[dsidx].id, dataset_filter)

\* Lines 261-262.
DatasetNotSelected ==
    /\ AtDataset /\ ~Selected
    /\ dsidx' = dsidx + 1
    /\ UNCHANGED <<sync_vars, groups_vars, mapping, has_mapping, tstate, sink,
                   tpc, toutcome, truns, dataset_filter, ingest_state, table,
                   success_count, skip_count, uploads, transformed_store,
                   nd_date, nd_frequency, nd_result>>

\* Lines 264-268.
DatasetAbsent ==
    /\ AtDataset /\ Selected
    /\ table' = transform_dataset(store, mapping[dsidx])
    /\ table'.absent \/ Len(table'.rows) = 0
    /\ skip_count' = skip_count + 1
    /\ dsidx' = dsidx + 1
    /\ UNCHANGED <<sync_vars, groups_vars, mapping, has_mapping, tstate, sink,
                   tpc, toutcome, truns, dataset_filter, ingest_state,
                   success_count, uploads, transformed_store, nd_date,
                   nd_frequency, nd_result>>

\* Lines 264-276.
DatasetInvalidMutant ==
    /\ AtDataset /\ Selected
    /\ table' = transform_dataset(store, mapping[dsidx])
    /\ ~table'.absent /\ Len(table'.rows) # 0
    /\ ~test_wide_table(table'.rows, mapping[dsidx])
    /\ store' = [c \in Codes |->
                    SelectSeq(store[c],
                              LAMBDA obs : daily_match(obs.date))]
    /\ skip_count' = skip_count + 1
    /\ dsidx' = dsidx + 1
    /\ UNCHANGED <<pstate, sync_memory, groups_vars, mapping, has_mapping,
                   tstate, sink, tpc, toutcome, truns, dataset_filter,
                   ingest_state, success_count, uploads, transformed_store,
                   nd_date, nd_frequency, nd_result>>

DatasetInvalid ==
    /\ AtDataset /\ Selected
    /\ table' = transform_dataset(store, mapping[dsidx])
    /\ ~table'.absent /\ Len(table'.rows) # 0
    /\ ~test_wide_table(table'.rows, mapping[dsidx])
    /\ skip_count' = skip_count + 1
    /\ dsidx' = dsidx + 1
    /\ UNCHANGED <<sync_vars, groups_vars, mapping, has_mapping, tstate, sink,
                   tpc, toutcome, truns, dataset_filter, ingest_state,
                   success_count, uploads, transformed_store, nd_date,
                   nd_frequency, nd_result>>

\* Lines 264-280.
DatasetUploadedMutant ==
    /\ AtDataset /\ Selected
    /\ table' = transform_dataset(store, mapping[dsidx])
    /\ ~table'.absent /\ Len(table'.rows) # 0
    /\ test_wide_table(table'.rows, mapping[dsidx])
    /\ sink' = [sink EXCEPT ![dsidx] = @ \o table'.rows]
    /\ uploads' = [uploads EXCEPT ![dsidx] = @ + 1]
    /\ success_count' = success_count + 1
    /\ dsidx' = dsidx + 1
    /\ UNCHANGED <<sync_vars, groups_vars, mapping, has_mapping, tstate, tpc,
                   toutcome, truns, dataset_filter, ingest_state, skip_count,
                   transformed_store, nd_date, nd_frequency, nd_result>>

DatasetUploaded ==
    /\ AtDataset /\ Selected
    /\ table' = transform_dataset(store, mapping[dsidx])
    /\ ~table'.absent /\ Len(table'.rows) # 0
    /\ test_wide_table(table'.rows, mapping[dsidx])
    /\ sink' = [sink EXCEPT ![dsidx] = Upsert(@, table'.rows)]
    /\ uploads' = [uploads EXCEPT ![dsidx] = @ + 1]
    /\ success_count' = success_count + 1
    /\ dsidx' = dsidx + 1
    /\ UNCHANGED <<sync_vars, groups_vars, mapping, has_mapping, tstate, tpc,
                   toutcome, truns, dataset_filter, ingest_state, skip_count,
                   transformed_store, nd_date, nd_frequency, nd_result>>

\* Line 279 raises (the sink cannot be reached): run() ends there, before
\* line 283.
UploadFails ==
    /\ AtDataset /\ Selected
    /\ table' = transform_dataset(store, mapping[dsidx])
    /\ ~table'.absent /\ Len(table'.rows) # 0
    /\ test_wide_table(table'.rows, mapping[dsidx])
    /\ tpc' = "idle"
    /\ toutcome' = "failed"
    /\ UNCHANGED <<sync_vars, groups_vars, mapping, has_mapping, tstate, sink,
                   truns, dataset_filter, ingest_state, dsidx, success_count,
                   skip_count, uploads, transformed_store, nd_date,
                   nd_frequency, nd_result>>

\* Lines 283-286.
ledger_mutant == [tstate EXCEPT !.transformed_series =
                                    ingest_state.fetched_series]

ledger ==
    [transformed_series |-> ingest_state.fetched_series,
     last_series_states |-> ingest_state.series_states]

FinishTransform ==
    /\ tpc = "datasets" /\ dsidx > Len(mapping)
    /\ tstate' = ledger
    /\ tpc' = "idle"
    /\ toutcome' = "complete"
    /\ transformed_store' = store
    /\ UNCHANGED <<sync_vars, groups_vars, mapping, has_mapping, sink, truns,
                   dataset_filter, ingest_state, dsidx, table, success_count,
                   skip_count, uploads, nd_date, nd_frequency, nd_result>>

TransformRun ==
    \/ TransformSkipped
    \/ TransformBegins
    \/ DatasetNotSelected
    \/ DatasetAbsent
    \/ DatasetInvalid
    \/ DatasetUploaded
    \/ UploadFails
    \/ FinishTransform

\* The string a modelled ISO date of the sync loop stands for.
date_text(d) == iso_string(2020, 1, d.n)

\* What a run of the sync loop leaves behind for one series with new rows
\* (series_data.py lines 181-191): a row appended to its file, its last_date
\* moved up, and in the saved fetched set the series and those the run went
\* through before it.  The DAG (line 292) runs the sync loop before the
\* transform, never during it.
IngestionRan ==
    /\ tpc = "idle"
    /\ \E code \in Codes, n \in 1..MaxDay, others \in SUBSET Codes :
         /\ \/ pstate.series_states[code] = None
            \/ pstate.series_states[code].n < n
         /\ date_text(IsoDate(n)) \notin DatesOf(store[code])
         /\ store' = [store EXCEPT ![code] =
                          Append(@, [date |-> date_text(IsoDate(n)),
                                     value |-> n])]
         /\ pstate' =
              [series_states |->
                   [pstate.series_states EXCEPT ![code] = IsoDate(n)],
               fetched_series |->
                   pstate.fetched_series \cup {code} \cup others]
    /\ UNCHANGED <<sync_memory, transform_vars, groups_vars>>

\* The datasets of the mapping.
dataset(id, frequency, series) ==
    [id |-> id, frequency |-> frequency, series |-> series]

RunMapping ==
    <<dataset(<<"r", "d">>, "daily", <<[code |-> "A", column |-> "a"]>>),
      dataset(<<"r", "m">>, "monthly",
              <<[code |-> "A", column |-> "a"],
                [code |-> "B", column |-> "b"]>>),
      dataset(<<"r", "q">>, "quarterly",
              <<[code |-> "A", column |-> "a"],
                [code |-> "B", column |-> "b"]>>),
      dataset(<<"c", "a">>, "annual", <<[code |-> "A", column |-> "a"]>>)>>

\* Files a previous deployment may have left, as the transform reads them.
LegacyRawFiles == {<<>>, <<[date |-> Revisions_string, value |-> 0]>>}

\* The ledger: sync runs and transform runs, one after the other.
LedgerInit ==
    /\ store \in [Codes -> LegacyRawFiles]
    /\ pstate = EmptyState
    /\ InitMemory
    /\ mapping = RunMapping
    /\ has_mapping = TRUE
    /\ tstate = EmptyLedger
    /\ sink = [i \in DOMAIN mapping |-> <<>>]
    /\ TransformMemoryInit
    /\ NormalizeAtRest
    /\ GroupsAtRest

LedgerNext == IngestionRan \/ TransformRun

LedgerSpec == LedgerInit /\ [][LedgerNext]_vars

\* Validation: transform runs over a long file of series A.  The file holds
\* the 15th of the first k months of 2021, then nothing, a quarter code or
\* the stray marker row.
month_rows(k) ==
    [m \in 1..k |-> [date |-> iso_string(2021, m, 15), value |-> m]]

LongFiles ==
    {month_rows(k) \o tail :
         k \in 0..MaxMonth,
         tail \in {<<>>, <<[date |-> quarter_string(2021, 3), value |-> 0]>>,
                   <<[date |-> Revisions_string, value |-> 0]>>}}

ValidateInit ==
    /\ store \in {[c \in Codes |-> IF c = "A" THEN f ELSE <<>>] :
                      f \in LongFiles}
    /\ pstate = EmptyState
    /\ InitMemory
    /\ mapping = RunMapping
    /\ has_mapping = TRUE
    /\ tstate = EmptyLedger
    /\ sink = [i \in DOMAIN mapping |-> <<>>]
    /\ TransformMemoryInit
    /\ NormalizeAtRest
    /\ GroupsAtRest

ValidateNext == TransformRun

ValidateSpec == ValidateInit /\ [][ValidateNext]_vars

\* transform_dataset as a function of the files: every pair of short files.
TableRows ==
    [date : {iso_string(2021, 7, 15), iso_string(2021, 10, 15),
             quarter_string(2021, 3)},
     value : {1, 2}]
        \cup {[date |-> <<>>, value |-> 1],
              [date |-> iso_string(2021, 7, 15), value |-> NotANumber]}

TableFiles == SeqsUpTo(TableRows, MaxStored)

TableMapping ==
    <<dataset(<<"r", "q">>, "quarterly",
              <<[code |-> "A", column |-> "a"],
                [code |-> "B", column |-> "b"]>>),
      dataset(<<"r", "d">>, "daily", <<[code |-> "A", column |-> "a"]>>)>>

TableInit ==
    /\ store \in [Codes -> TableFiles]
    /\ pstate = EmptyState
    /\ InitMemory
    /\ mapping = TableMapping
    /\ has_mapping = TRUE
    /\ tstate = EmptyLedger
    /\ sink = [i \in DOMAIN mapping |-> <<>>]
    /\ TransformMemoryInit
    /\ NormalizeAtRest
    /\ GroupsAtRest

\* transform_dataset(dataset_id, config) is called and returns.
TransformDatasetCall ==
    /\ toutcome = "none"
    /\ \E i \in DOMAIN mapping :
         /\ dsidx' = i
         /\ table' = transform_dataset(store, mapping[i])
    /\ toutcome' = "returned"
    /\ UNCHANGED <<sync_vars, groups_vars, mapping, has_mapping, tstate, sink,
                   tpc, truns, dataset_filter, ingest_state, success_count,
                   skip_count, uploads, transformed_store, nd_date,
                   nd_frequency, nd_result>>

TableNext == TransformDatasetCall

TableSpec == TableInit /\ [][TableNext]_vars

(***************************************************************************)
(* Transform runs that end in an error.                                    *)
(***************************************************************************)

\* Lines 222-250 without mappings/datasets.json: open() in load_mapping
\* (line 57) raises FileNotFoundError and run() ends there.
LoadMappingFailsMutant ==
    /\ tpc = "idle" /\ truns < MaxTransformRuns
    /\ ~has_mapping
    /\ \E filter \in Filters :
         /\ ~run_is_skipped(filter)
         /\ dataset_filter' = filter
    /\ truns' = truns + 1
    /\ ingest_state' = pstate
    /\ toutcome' = "failed"
    /\ tstate' = [transformed_series |-> pstate.fetched_series,
                  last_series_states |-> pstate.series_states]
    /\ UNCHANGED <<sync_vars, groups_vars, mapping, has_mapping, sink,
                   tpc, dsidx, table, success_count, skip_count, uploads,
                   transformed_store, nd_date, nd_frequency, nd_result>>

LoadMappingFails ==
    /\ tpc = "idle" /\ truns < MaxTransformRuns
    /\ ~has_mapping
    /\ \E filter \in Filters :
         /\ ~run_is_skipped(filter)
         /\ dataset_filter' = filter
    /\ truns' = truns + 1
    /\ ingest_state' = pstate
    /\ toutcome' = "failed"
    /\ UNCHANGED <<sync_vars, groups_vars, mapping, has_mapping, tstate, sink,
                   tpc, dsidx, table, success_count, skip_count, uploads,
                   transformed_store, nd_date, nd_frequency, nd_result>>

\* Sync runs and transform runs, with or without the mapping file.
FaultInit ==
    /\ store \in [Codes -> LegacyRawFiles]
    /\ pstate = EmptyState
    /\ InitMemory
    /\ mapping = RunMapping
    /\ has_mapping \in BOOLEAN
    /\ tstate = EmptyLedger
    /\ sink = [i \in DOMAIN mapping |-> <<>>]
    /\ TransformMemoryInit
    /\ NormalizeAtRest
    /\ GroupsAtRest

FaultNext == IngestionRan \/ TransformRun \/ LoadMappingFails

FaultSpec == FaultInit /\ [][FaultNext]_vars

(***************************************************************************)
(* The groups node (src/src/nodes/groups.py, run, lines 68-95): the list   *)
(* of groups, then one get_group_details_async task per group, all sharing *)
(* one semaphore, gathered with return_exceptions=True.                    *)
(***************************************************************************)
MaxGroups == 11     \* fetch_all_groups returns 0 .. MaxGroups groups
MaxFailing == 1     \* the fetch of groups 1 .. MaxFailing may raise

\* asyncio.Semaphore(10)
SemaphoreSize == 10

\* The tasks that are inside "async with semaphore".
InFlight == {g \in DOMAIN task : task[g] = "in_flight"}

\* Lines 74-82: the group list arrives and the tasks are created.
GroupsRunStarts ==
    /\ gpc = "idle"
    /\ \E n \in 0..MaxGroups : task' = [g \in 1..n |-> "waiting"]
    /\ permits' = SemaphoreSize
    /\ gpc' = "gather"
    /\ UNCHANGED <<sync_vars, transform_vars, groups_raw>>

\* Line 74: fetch_all_groups raises (HTTP error, or no GROUPS section).
GroupListFails ==
    /\ gpc = "idle"
    /\ gpc' = "failed"
    /\ UNCHANGED <<sync_vars, transform_vars, permits, task, groups_raw>>

\* Line 48: a task enters "async with semaphore" and starts its thread.
AcquireMutant(g) ==
    /\ gpc = "gather" /\ task[g] = "waiting"
    /\ permits' = permits - 1
    /\ task' = [task EXCEPT ![g] = "in_flight"]
    /\ UNCHANGED <<sync_vars, transform_vars, gpc, groups_raw>>

Acquire(g) ==
    /\ gpc = "gather" /\ task[g] = "waiting"
    /\ permits > 0
    /\ permits' = permits - 1
    /\ task' = [task EXCEPT ![g] = "in_flight"]
    /\ UNCHANGED <<sync_vars, transform_vars, gpc, groups_raw>>

\* Line 49: the thread returns the details; the semaphore is released.
DetailReturns(g) ==
    /\ gpc = "gather" /\ task[g] = "in_flight"
    /\ permits' = permits + 1
    /\ task' = [task EXCEPT ![g] = "returned"]
    /\ UNCHANGED <<sync_vars, transform_vars, gpc, groups_raw>>

\* Line 49: get_group_details_sync raises; "async with" releases as well.
DetailRaises(g) ==
    /\ gpc = "gather" /\ task[g] = "in_flight"
    /\ g <= MaxFailing
    /\ permits' = permits + 1
    /\ task' = [task EXCEPT ![g] = "raised"]
    /\ UNCHANGED <<sync_vars, transform_vars, gpc, groups_raw>>

\* Lines 83-95: gather returns when every task is done; the results that
\* are not exceptions are saved.
GatherReturns ==
    /\ gpc = "gather"
    /\ \A g \in DOMAIN task : task[g] \in {"returned", "raised"}
    /\ groups_raw' = {g \in DOMAIN task : task[g] = "returned"}
    /\ gpc' = "saved"
    /\ UNCHANGED <<sync_vars, transform_vars, permits, task>>

GroupsInit ==
    /\ store = [c \in Codes |-> <<>>]
    /\ pstate = EmptyState
    /\ InitMemory
    /\ TransformAtRest
    /\ GroupsAtRest

GroupsNext ==
    \/ GroupsRunStarts
    \/ GroupListFails
    \/ \E g \in DOMAIN task : Acquire(g)
    \/ \E g \in DOMAIN task : DetailReturns(g)
    \/ \E g \in DOMAIN task : DetailRaises(g)
    \/ GatherReturns

GroupsSpec == GroupsInit /\ [][GroupsNext]_vars

(***************************************************************************)
(* Sync runs that die between writing the observations and the state.      *)
(***************************************************************************)

\* What a run of the sync loop leaves behind when the process dies after
\* save_series_data (series_data.py line 182) and before save_state (line
\* 194): the row is in the file, the state blob is as it was.  A later run
\* that fetches the same row again finds it stored and changes nothing
\* (lines 176-179).
IngestionCrashed ==
    /\ tpc = "idle"
    /\ \E code \in Codes, n \in 1..MaxDay :
         /\ \/ pstate.series_states[code] = None
            \/ pstate.series_states[code].n < n
         /\ date_text(IsoDate(n)) \notin DatesOf(store[code])
         /\ store' = [store EXCEPT ![code] =
                          Append(@, [date |-> date_text(IsoDate(n)),
                                     value |-> n])]
    /\ UNCHANGED <<pstate, sync_memory, transform_vars, groups_vars>>

CrashNext == IngestionRan \/ IngestionCrashed \/ TransformRun

CrashSpec == LedgerInit /\ [][CrashNext]_vars

(***************************************************************************)
(* Sync runs started again and again.                                      *)
(***************************************************************************)

\* Lines 105-122 without the bound on the number of runs: the scheduler
\* starts the node again after every run.  The run counter, which only
\* labels the rows a fetch returns, stops at MaxRuns.
StartRunAgain ==
    /\ pc = "idle"
    /\ runs' = IF runs < MaxRuns THEN runs + 1 ELSE runs
    /\ pc' = "loop"
    /\ outcome' = "running"
    /\ idx' = 1
    /\ series_states' = pstate.series_states
    /\ fetched_series' = pstate.fetched_series
    /\ ClearLocals
    /\ branch' = "none"
    /\ prev_last_date' = None
    /\ updated_count' = 0
    /\ skipped_count' = 0
    /\ inaccessible_count' = 0
    /\ budget_spent' = FALSE
    /\ store_writes' = 0
    /\ honoured' = TRUE
    /\ upstream_news' = "none"
    /\ dirty' = FALSE
    /\ committed' = [c \in Codes |-> NoCommit]
    /\ UNCHANGED <<transform_vars, groups_vars>>
    /\ UNCHANGED <<store, pstate, seen>>

\* Runs that end by themselves or by the time budget, never by an
\* exception or a kill.
StarveNext ==
    \/ StartRunAgain
    \/ ClockPasses
    \/ TimeBudgetExhausted
    \/ Inaccessible
    \/ \E batch \in Batches(runs) : FetchReturns(batch)
    \/ SkipSeries
    \/ SaveSeries
    \/ SaveState
    \/ FinishRun

\* The process and the scheduler keep going: some step is always taken.
StarveSpec == Init /\ [][StarveNext]_vars /\ WF_vars(StarveNext)

(***************************************************************************)
(* Properties of the sync loop.                                            *)
(***************************************************************************)

\* The series whose iteration finished last, while the loop is at line 124.
finished_code == series_list[idx - 1]

JustUpdated == pc = "loop" /\ branch = "updated"

\* C1: in every stored series file, no two rows carry the same date.
C1_NoDuplicateTimestamps ==
    \A c \in Codes : \A i, j \in DOMAIN store[c] :
        i # j => store[c][i].date # store[c][j].date

\* C2: once the merge has written a series file, the file holds every
\* well-formed date of the rows that were stored before and of the fetched
\* batch.
C2_MergeKeepsEveryWellFormedDate ==
    pc = "saved" =>
        WellFormedDates(existing_obs) \cup WellFormedDates(new_obs)
            \subseteq DatesIn(store[series_code])

C2_Witness ==
    /\ pc = "saved"
    /\ WellFormedDates(existing_obs) # {}
    /\ WellFormedDates(new_obs) \ WellFormedDates(existing_obs) # {}
    /\ WellFormedDates(new_obs) \cap WellFormedDates(existing_obs) # {}

\* C3: a series file the merge has written holds no date without '-',
\* whether such a date came with the batch or was in the file before.
C3_NoMalformedStored ==
    pc = "saved" => \A d \in DatesIn(store[series_code]) : HasDash(d)

\* C4: a run after the first whose fetches return no valid date beyond those
\* that earlier iterations already merged (no new upstream data) changes
\* neither a series file nor the persisted state.
C4_RerunChangesNothing ==
    (runs >= 2 /\ upstream_news # "new") => ~dirty

C4_Witness ==
    /\ runs = 2
    /\ pc = "idle"
    /\ outcome = "complete"
    /\ upstream_news = "repeats"
    /\ ~dirty
    /\ skipped_count = Len(series_list)
    /\ \A c \in Codes : pstate.series_states[c] # None

C6_SkipKeepsWatermark ==
    [][(/\ pc = "fetched"
        /\ pc' = "loop"
        /\ WellFormedDates(new_obs) \subseteq WellFormedDates(existing_obs))
       => /\ series_states'[series_code] = series_states[series_code]
          /\ pstate'.series_states[series_code] = pstate.series_states[series_code]
      ]_vars

C6_Witness ==
    /\ pc = "loop"
    /\ branch = "duplicate"
    /\ pstate.series_states[finished_code] # None

\* The rows of the batch that the merge has to add.
C7_Added ==
    {r \in RowsIn(new_obs) :
        HasDash(r.date) /\ r.date \notin WellFormedDates(existing_obs)}

\* C7: the merge stores the rows stored before plus exactly the rows of the
\* batch whose date is well-formed and not a well-formed stored date; the
\* series counts as changed iff there is such a row; and the update then
\* persists the greatest well-formed date of the batch as last_date.
C7_MergeResult ==
    [][/\ (pc = "fetched" /\ pc' \in {"loop", "saved"}) =>
            /\ (pc' = "saved") = (C7_Added # {})
            /\ RowsIn(store'[series_code]) =
                 RowsIn(existing_obs) \cup C7_Added
       /\ (pc = "saved" /\ pc' = "loop") =>
            /\ pstate'.series_states[series_code] \in WellFormedDates(new_obs)
            /\ \A d \in WellFormedDates(new_obs) :
                   StrLeq(d, pstate'.series_states[series_code])
      ]_vars

\* The scenario of the specification, one day earlier: stored 01-01, the
\* batch holds 01-01 again and 01-02.
C7_Witness ==
    /\ JustUpdated
    /\ runs = 2
    /\ prev_last_date = IsoDate(1)
    /\ store[finished_code] =
         <<[date |-> IsoDate(1), value |-> 1], [date |-> IsoDate(2), value |-> 2]>>
    /\ pstate.series_states[finished_code] = IsoDate(2)

\* C8: when a run has returned False, the persisted fetched set holds every
\* series the run marked as fetched.
C8_FetchedSetPersisted ==
    (pc = "idle" /\ outcome = "complete") =>
        fetched_series \subseteq pstate.fetched_series

\* A run ended by a kill or by an exception of the fetch.
Died == pc = "idle" /\ outcome \in {"crashed", "crashed_in_persist", "failed"}

\* C9: after a run died, every series the run had updated before has its
\* merged rows in its file and its new last_date in the persisted state.
C9_DeathKeepsFinishedSeries ==
    Died => \A c \in Codes :
                committed[c] # NoCommit =>
                    /\ store[c] = committed[c].obs
                    /\ pstate.series_states[c] = committed[c].last_date

C9_Witness ==
    /\ Died
    /\ outcome = "crashed_in_persist"
    /\ committed[series_list[1]] # NoCommit
    /\ committed[series_list[2]] = NoCommit
    /\ store[series_list[2]] # <<>>

\* C10: no durable state holds the newly merged rows of a series while the
\* persisted last_date and fetched entry of that series are still the ones
\* from before the merge.
C10_PersistIsOneUnit ==
    ~ /\ pc = "saved"
      /\ store[series_code] # existing_obs
      /\ pstate.series_states[series_code] = series_states[series_code]
      /\ (series_code \in pstate.fetched_series) = (series_code \in fetched_series)

C12_StartBoundary ==
    pc = "planned" =>
        LET wm == series_states[series_code]
        IN /\ wm.fmt = "iso" => start_date = IsoDate(wm.n + 1)
           /\ wm.fmt = "quarter" => start_date = wm
           /\ (wm = None /\ WellFormedDates(existing_obs) = {}) =>
                  start_date = IsoDate(0)

C12_Witness ==
    /\ pc = "planned"
    /\ idx = 2
    /\ series_states[series_list[1]].fmt = "iso"
    /\ series_states[series_list[2]].fmt = "quarter"
    /\ start_date = series_states[series_list[2]]

\* C13: for a series with stored rows and no last_date in the state, the
\* planned start date is the day after the greatest stored date that
\* contains '-'; stored dates without '-' do not count.
C13_StartDerivedFromStore ==
    (/\ pc = "planned"
     /\ series_states[series_code] = None
     /\ WellFormedDates(existing_obs) # {}) =>
        start_date = IsoDate(MaxDate(WellFormedDates(existing_obs)).n + 1)

C13_Witness ==
    /\ pc = "planned"
    /\ series_states[series_code] = None
    /\ Revisions \in DatesIn(existing_obs)
    /\ WellFormedDates(existing_obs) # {}
    /\ start_date # IsoDate(0)

\* C14: planning writes nothing: the series files, the persisted state and
\* the in-memory state are the same after it, also when the last_date was
\* derived from the stored rows.
C14_PlanWritesNothing ==
    [][(pc = "loop" /\ pc' = "planned") =>
          UNCHANGED <<store, pstate, series_states, fetched_series>>
      ]_vars

C14_Witness ==
    /\ pc = "planned"
    /\ series_states[series_code] = None
    /\ pstate.series_states[series_code] = None
    /\ Revisions \notin DatesIn(existing_obs)
    /\ start_date = IsoDate(MaxDay + 1)

\* C15: when the fetch reports the series inaccessible, the loop goes to the
\* next series: the series files, the persisted state, the last_date entries
\* and the fetched set stay as they are, inaccessible_count grows by one and
\* no other counter changes, and the run keeps running.
C15_InaccessibleIsSkipped ==
    [][(pc = "loop" /\ pc' = "loop" /\ idx' # idx) =>
          /\ UNCHANGED <<store, pstate, series_states, fetched_series>>
          /\ inaccessible_count' = inaccessible_count + 1
          /\ UNCHANGED <<updated_count, skipped_count>>
          /\ idx' = idx + 1
          /\ outcome' = "running"
      ]_vars

C15_Witness ==
    /\ pc = "idle"
    /\ outcome = "complete"
    /\ runs = 1
    /\ inaccessible_count = 1
    /\ updated_count = 1
    /\ committed[series_list[1]] = NoCommit
    /\ committed[series_list[2]] # NoCommit
    /\ series_list[1] \notin pstate.fetched_series
    /\ pstate.series_states[series_list[1]] = None

\* C16: a fetch that raises ends the run at that series: the step that
\* fails leaves the loop without writing a series file or the state, and
\* the next thing that happens after a failed run is the start of a new
\* run, so the fetch is not tried again and no later series is fetched,
\* merged or persisted in the failed run.
C16_FetchFailureEndsRun ==
    [][/\ (outcome # "failed" /\ outcome' = "failed") =>
            /\ pc = "loop"
            /\ pc' = "idle"
            /\ UNCHANGED <<store, pstate>>
       /\ outcome = "failed" => (pc = "idle" /\ runs' = runs + 1)
      ]_vars

C16_Witness ==
    /\ pc = "idle"
    /\ outcome = "failed"
    /\ runs = 1
    /\ committed[series_list[1]] # NoCommit
    /\ committed[series_list[2]] = NoCommit
    /\ WellFormedDates(store[series_list[2]]) = {}
    /\ pstate.series_states[series_list[2]] = None

\* C17: when the loop comes to a series with the time budget used up, the
\* run ends there with the result True (more work) and writes nothing; it
\* only ends with True at a series not yet processed; and when the loop has
\* gone through every series the run ends with the result False.  (A kill
\* of the process is not a result of run.)
C17_TimeBudget ==
    [][/\ (pc = "loop" /\ idx <= Len(series_list) /\ budget_spent
             /\ outcome' # "crashed") =>
            /\ pc' = "idle"
            /\ outcome' = "more"
            /\ UNCHANGED <<store, pstate>>
       /\ (outcome # "more" /\ outcome' = "more") =>
            /\ pc = "loop" /\ idx <= Len(series_list) /\ budget_spent
            /\ UNCHANGED <<store, pstate>>
       /\ (pc = "loop" /\ idx > Len(series_list) /\ pc' # "loop"
             /\ outcome' # "crashed") =>
            outcome' = "complete"
       /\ (outcome # "complete" /\ outcome' = "complete") =>
            pc = "loop" /\ idx > Len(series_list)
      ]_vars

C17_Witness ==
    /\ pc = "idle"
    /\ outcome = "more"
    /\ runs = 1
    /\ idx = 2
    /\ committed[series_list[1]] # NoCommit
    /\ WellFormedDates(store[series_list[2]]) = {}

\* C18: in every run, also one that follows a run ended by the time budget
\* or by a kill: a write keeps every row a series file held, in place; a
\* series with a persisted last_date is fetched from the day after it; and
\* the rows a write adds carry no date the file held already.  A batch that
\* repeats dates of the file costs nothing more than that.
C18_ResumeLosesAndRepeatsNothing ==
    [][/\ \A c \in Codes :
            /\ Len(store[c]) <= Len(store'[c])
            /\ SubSeq(store'[c], 1, Len(store[c])) = store[c]
            /\ \A i \in (Len(store[c]) + 1)..Len(store'[c]) :
                   store'[c][i].date \notin DatesIn(store[c])
       /\ (pc = "loop" /\ pc' = "fetched"
             /\ pstate.series_states[series_code] # None) =>
            start_date' = next_day(pstate.series_states[series_code])
      ]_vars

\* A series file that holds well-formed dates while the state has no
\* last_date for the series: an earlier run was killed between line 182 and
\* line 194.  The next run fetches dates of the file again and stores only
\* the new one.
C18_Witness ==
    /\ runs = 2
    /\ pc = "saved"
    /\ pstate.series_states[series_code] = None
    /\ WellFormedDates(existing_obs) # {}
    /\ WellFormedDates(new_obs) \cap WellFormedDates(existing_obs) # {}
    /\ Len(store[series_code]) = Len(existing_obs) + 1

\* C19: when the batch holds no row with a well-formed date that is not a
\* well-formed stored date, the loop goes on without calling
\* save_series_data: the series files are not written.
C19_NoWriteWithoutNewRows ==
    [][(pc = "fetched" /\ pc' = "loop" /\ C7_Added = {}) =>
          /\ store_writes' = store_writes
          /\ store' = store
      ]_vars

C19_Witness ==
    /\ pc = "loop"
    /\ branch = "duplicate"
    /\ store_writes = 0
    /\ skipped_count = 1
    /\ WellFormedDates(store[finished_code]) # {}

\* C20: every row of every series file has a value that is a number.
C20_OnlyNumericStored ==
    \A c \in Codes : \A i \in DOMAIN store[c] : IsNumeric(store[c][i].value)

(***************************************************************************)
(* Properties of the transform node.                                       *)
(***************************************************************************)

\* The forms the date argument of normalize_date can have.
IsQuarterCode(s) == \E y \in Years, q \in 1..4 : s = quarter_string(y, q)

IsIsoDate(s) ==
    \E y \in Years, m \in 1..MaxMonth, d \in 1..31 : s = iso_string(y, m, d)

\* C25: normalize_date returns YYYY-Qn for a quarter code YYYYQn whatever the
\* frequency; for an ISO date YYYY-MM-DD it returns the date itself (daily),
\* YYYY-MM (monthly), YYYY-Qk with k = (MM-1)//3 + 1 (quarterly), YYYY
\* (annual, biennial, triennial); any other string is returned as it is.
C25_NormalizeDate ==
    nd_result.returned =>
        /\ \A y \in Years, q \in 1..4 :
              nd_date = quarter_string(y, q) =>
                  nd_result.value = Pad4(y) \o <<"-", "Q", DigitChar(q)>>
        /\ \A y \in Years, m \in 1..MaxMonth, d \in 1..31 :
              nd_date = iso_string(y, m, d) =>
                  /\ nd_frequency = "daily" => nd_result.value = nd_date
                  /\ nd_frequency = "monthly" =>
                        nd_result.value = Pad4(y) \o <<"-">> \o Pad2(m)
                  /\ nd_frequency = "quarterly" =>
                        nd_result.value =
                            Pad4(y) \o <<"-", "Q">> \o str_of((m - 1) \div 3 + 1)
                  /\ nd_frequency \in {"annual", "biennial", "triennial"} =>
                        nd_result.value = Pad4(y)
        /\ (~IsQuarterCode(nd_date) /\ ~IsIsoDate(nd_date)) =>
              nd_result.value = nd_date

\* The changed set as the ledger describes it.
ChangedSet ==
    (pstate.fetched_series \ tstate.transformed_series)
        \cup {c \in Codes :
                  pstate.series_states[c] # tstate.last_series_states[c]}

\* C21: a transform run is skipped (it transforms no dataset and uploads
\* nothing) exactly when it was given no dataset filter and the changed set
\* is empty: the fetched entities that were not transformed before, and the
\* entities whose watermark differs from the snapshot of the last transform.
C21_SkippedExactlyWhenUnchanged ==
    [][(tpc = "idle" /\ truns' = truns + 1) =>
          /\ (toutcome' = "skipped")
                 <=> (dataset_filter' = <<>> /\ ChangedSet = {})
          /\ toutcome' = "skipped" =>
                 tpc' = "idle" /\ sink' = sink /\ uploads' = uploads
          /\ toutcome' # "skipped" => tpc' = "datasets"]_vars

\* A run was skipped although entities had been fetched and transformed.
C21_Witness ==
    /\ toutcome = "skipped" /\ dataset_filter = <<>>
    /\ tstate.transformed_series # {}
    /\ \E c \in Codes : tstate.last_series_states[c] # None

\* C22: when a transform pass completes without error, the saved ledger has
\* transformed_series equal to the fetched set of the ingestion state and
\* last_series_states equal to its watermarks, so a run that follows at once,
\* without a filter and without ingestion in between, is skipped.
C22_LedgerCatchesUp ==
    [][(tpc = "datasets" /\ toutcome' = "complete") =>
          /\ tstate'.transformed_series = pstate'.fetched_series
          /\ tstate'.last_series_states = pstate'.series_states
          /\ run_is_skipped(<<>>)']_vars

\* A pass completed after the sync loop had fetched and dated an entity.
C22_Witness ==
    /\ tpc = "idle" /\ toutcome = "complete"
    /\ tstate.transformed_series # {}
    /\ \E c \in Codes : tstate.last_series_states[c] # None

OnlyConstituents(config) ==
    [c \in Codes |->
        IF \E i \in DOMAIN config.series : config.series[i].code = c
        THEN store[c] ELSE <<>>]

\* C24: transforming a dataset changes neither the raw series files nor the
\* watermarks nor the fetched set, and the table it gives is the one that
\* the files of the dataset's own entities and its mapping entry give.
C24_TransformReadsOnly ==
    [][(AtDataset /\ Selected) =>
          /\ store' = store
          /\ pstate' = pstate
          /\ table' = transform_dataset(OnlyConstituents(mapping[dsidx]),
                                        mapping[dsidx])]_vars

\* The daily dataset, which has entity A alone, was transformed while B had
\* rows and the sync loop had left watermarks.
C24_Witness ==
    /\ tpc = "datasets" /\ dsidx = 2
    /\ ~table.absent
    /\ store["B"] # <<>>
    /\ pstate.fetched_series # {}

\* An observation with a date and a value float() accepts.
is_parseable(obs) == obs.date # <<>> /\ IsNumeric(obs.value)

\* The observations of a dataset's entities that have a date and a value
\* float() accepts, as (entity, position in its file).
Parseable(config) ==
    UNION {{<<config.series[k].code, i>> :
                i \in {j \in DOMAIN store[config.series[k].code] :
                           is_parseable(store[config.series[k].code][j])}} :
           k \in DOMAIN config.series}

NormalizedDate(p, config) ==
    normalize_date(store[p[1]][p[2]].date, config.frequency)

\* C26: the wide table of a dataset has exactly one row for each distinct
\* normalized date that occurs with a numerically parseable value in the
\* stored observations of any of its entities (the union over the entities),
\* and its rows are strictly ascending by normalized date.
C26_OneRowPerDateAscending ==
    (toutcome = "returned" /\ ~table.absent) =>
        LET config == mapping[dsidx]
            rows == table.rows
        IN /\ DatesOf(rows) =
                  {NormalizedDate(p, config) : p \in Parseable(config)}
           /\ \A i \in 1..(Len(rows) - 1) :
                  StringLess(rows[i].date, rows[i + 1].date)

\* Two rows, the first from entity A alone and the second from B alone,
\* while a stored row had a value that is not a number.
C26_Witness ==
    /\ toutcome = "returned" /\ dsidx = 1
    /\ Len(table.rows) = 2
    /\ table.rows[1].cells["b"] = Null /\ table.rows[2].cells["a"] = Null
    /\ \E c \in Codes : \E i \in DOMAIN store[c] :
           store[c][i].value = NotANumber

\* C27: transform_dataset returns None, and never a table without rows,
\* exactly when no entity of the dataset has an observation with a non-empty
\* date and a numerically parseable value.
C27_AbsentExactlyWhenNoData ==
    toutcome = "returned" =>
        /\ table.absent <=> Parseable(mapping[dsidx]) = {}
        /\ ~table.absent => Len(table.rows) >= 1

\* None was returned for entities whose files have rows, none of them usable.
C27_Witness ==
    /\ toutcome = "returned" /\ dsidx = 1
    /\ table.absent
    /\ \A c \in Codes : Len(store[c]) = MaxStored
    /\ \E c \in Codes : \E i \in DOMAIN store[c] : store[c][i].date = <<>>
    /\ \E c \in Codes : \E i \in DOMAIN store[c] :
           store[c][i].value = NotANumber

\* C28: when the mapping of a dataset names an entity without stored
\* observations and another of its entities has valid data, the transform
\* returns a table, the table has the column of the missing entity, and that
\* column is null in every row.
C28_MissingEntityColumnIsNull ==
    \A k \in DOMAIN mapping[dsidx].series :
        (/\ toutcome = "returned"
         /\ store[mapping[dsidx].series[k].code] = <<>>
         /\ Parseable(mapping[dsidx]) # {}) =>
            /\ ~table.absent
            /\ \A i \in DOMAIN table.rows :
                   /\ mapping[dsidx].series[k].column
                          \in DOMAIN table.rows[i].cells
                   /\ table.rows[i].cells[mapping[dsidx].series[k].column]
                          = Null

\* Entity B has no file, entity A gave two rows.
C28_Witness ==
    /\ toutcome = "returned" /\ dsidx = 1
    /\ store["B"] = <<>>
    /\ Len(table.rows) = 2
    /\ \A i \in DOMAIN table.rows : table.rows[i].cells["a"] # Null

\* The observations of one entity written to one date of the table.
WrittenTo(config, k, date) ==
    {i \in DOMAIN store[config.series[k].code] :
         /\ is_parseable(store[config.series[k].code][i])
         /\ normalize_date(store[config.series[k].code][i].date,
                           config.frequency) = date}

\* C29: when several stored observations map to the same normalized date and
\* output column, the cell holds the value of the last of them that has a
\* parseable value, in the order of processing (the entities in mapping
\* order, the observations of an entity in stored order).
C29_LastWriteWins ==
    (toutcome = "returned" /\ ~table.absent) =>
        \A r \in DOMAIN table.rows, k \in DOMAIN mapping[dsidx].series :
            LET config == mapping[dsidx]
                hits == WrittenTo(config, k, table.rows[r].date)
                last == CHOOSE i \in hits : \A j \in hits : j <= i
            IN hits # {} =>
                   table.rows[r].cells[config.series[k].column] =
                       store[config.series[k].code][last].value

\* Two observations of entity A with different values fell on one date.
C29_Witness ==
    /\ toutcome = "returned" /\ dsidx = 1 /\ ~table.absent
    /\ Len(store["A"]) = 2
    /\ is_parseable(store["A"][1]) /\ is_parseable(store["A"][2])
    /\ store["A"][1].date # store["A"][2].date
    /\ store["A"][1].value # store["A"][2].value
    /\ Len(table.rows) = 1
    /\ table.rows[1].cells["a"] = store["A"][2].value

\* A date in the format of a declared frequency.
InFormat(d, frequency) ==
    CASE frequency = "daily" -> Len(d) = 10 /\ d[5] = "-" /\ d[8] = "-"
      [] frequency = "monthly" -> Len(d) = 7 /\ d[5] = "-"
      [] frequency = "quarterly" -> \E i \in DOMAIN d : d[i] = "Q"
      [] frequency = "annual" -> Len(d) = 4 /\ \A i \in 1..4 : IsDigit(d[i])
      [] OTHER -> TRUE

\* C30: every wide table the transform run uploads has in every row a date
\* in the format of the dataset's declared frequency (daily: 10 characters
\* with '-' at positions 4 and 7; monthly: 7 characters with '-' at position
\* 4; quarterly: contains 'Q'; annual: 4 digits); a table that violates this
\* is counted as skipped and never uploaded.
C30_UploadedDatesInFormat ==
    \A i \in DOMAIN sink : \A r \in DOMAIN sink[i] :
        InFormat(sink[i][r].date, mapping[i].frequency)

\* C31: whenever the transform run is invoked while the mapping
\* configuration is missing, the run fails at once with an error, before any
\* dataset is uploaded and before the ledger is written.
C31_MissingMappingFails ==
    [][(tpc = "idle" /\ truns' = truns + 1 /\ ~has_mapping) =>
          /\ toutcome' = "failed"
          /\ sink' = sink /\ uploads' = uploads
          /\ tstate' = tstate]_vars

\* C32: during the group-details ingestion at most 10 group detail fetches
\* are in flight at any moment, for any number of groups and any
\* interleaving of the fetch tasks.
C32_AtMostTenInFlight == Cardinality(InFlight) <= 10

\* Ten fetches are in flight and an eleventh task waits for the semaphore.
C32_Witness ==
    /\ gpc = "gather"
    /\ Cardinality(InFlight) = 10
    /\ \E g \in DOMAIN task : task[g] = "waiting"

\* C33: one entity's state update never corrupts or removes another
\* entity's watermark: every state blob the sync loop persists contains,
\* unchanged, the watermark of every other entity and every member of the
\* fetched set that the previously persisted blob had.
C33_OtherWatermarksKept ==
    [][pstate' # pstate =>
          /\ \A c \in Codes \ {series_code} :
                 pstate'.series_states[c] = pstate.series_states[c]
          /\ pstate.fetched_series \subseteq pstate'.fetched_series]_vars

\* The state was persisted for B while A had a watermark.
C33_Witness ==
    /\ JustUpdated /\ finished_code = "B"
    /\ pstate.series_states["A"] # None
    /\ pstate.series_states["B"] # None
    /\ pstate.series_states["A"] # pstate.series_states["B"]

\* The datasets of the mapping that include an entity, and its column there.
DatasetsWith(c) ==
    {i \in DOMAIN mapping :
         \E k \in DOMAIN mapping[i].series : mapping[i].series[k].code = c}

ColumnOf(i, c) ==
    mapping[i].series[CHOOSE k \in DOMAIN mapping[i].series :
                          mapping[i].series[k].code = c].column

\* The sink of a dataset has the entity's observation of the watermark date,
\* or a later one on the same normalized date.
UploadedUpTo(i, c, w) ==
    \E r \in DOMAIN sink[i] :
        /\ sink[i][r].date = normalize_date(date_text(w), mapping[i].frequency)
        /\ sink[i][r].cells[ColumnOf(i, c)] # Null
        /\ sink[i][r].cells[ColumnOf(i, c)] >= w.n

\* C34: whenever the ledger records an entity as transformed with a
\* watermark snapshot, every dataset of the mapping that includes the entity
\* has been transformed and uploaded from observations at least as recent as
\* that watermark, also after runs with a dataset prefix filter and for
\* datasets that validation skipped.
C34_LedgerMeansUploaded ==
    \A c \in tstate.transformed_series :
        tstate.last_series_states[c] # None =>
            \A i \in DatasetsWith(c) :
                UploadedUpTo(i, c, tstate.last_series_states[c])

\* C35: whenever the stored observations of an entity differ from what they
\* were at the last completed transform pass, the next transform run without
\* a filter is not skipped, whatever sync runs came before, among them runs
\* that died between writing the observations and writing the state and
\* runs whose fetch returned only duplicates.
C35_ChangedStoreIsTransformed ==
    (tpc = "idle" /\ \E c \in Codes : store[c] # transformed_store[c]) =>
        ~run_is_skipped(<<>>)

\* The fetch of the i-th catalog entity was made in the current run.
FetchMade(i) ==
    \/ idx > i
    \/ idx = i /\ pc \in {"fetched", "saved"}

\* C36: when sync runs are repeated and stopped by the time budget again and
\* again, each after it made at least one fetch, every catalog entity is
\* eventually fetched at least once; no entity late in the catalog order is
\* postponed forever.
C36_NoEntityPostponedForever ==
    (/\ []<>(pc = "idle" /\ outcome = "more")
     /\ [](outcome = "more" => idx > 1)) =>
        \A i \in DOMAIN series_list : <>FetchMade(i)

\* A step of the transform run, as opposed to a step of the sync loop.
TransformStep == <<tpc, truns, dsidx>>' # <<tpc, truns, dsidx>>

\* C37: a transform run that fails part-way (the mapping cannot be loaded,
\* an upload raises) leaves the ledger as it was: no step of a run other
\* than the one that completes it changes transformed_series or
\* last_series_states, so the next run sees the same new and changed sets.
C37_FailedRunKeepsLedger ==
    [][(TransformStep /\ toutcome' # "complete") =>
           /\ tstate' = tstate
           /\ new_series' = new_series
           /\ changed_series' = changed_series]_vars

C37_Witness ==
    /\ tpc = "idle" /\ toutcome = "failed"
    /\ success_count > 0
    /\ changed_series # {}
    /\ ~run_is_skipped(<<>>)

C39_EveryRowHasAValue ==
    (toutcome = "returned" /\ ~table.absent) =>
        \A i \in DOMAIN table.rows :
            \E col \in DOMAIN table.rows[i].cells :
                table.rows[i].cells[col] # Null

\* A one-row table whose second column is null, returned from a file that
\* also holds a row with a date of its own and a value that is not a number.
C39_Witness ==
    /\ toutcome = "returned" /\ dsidx = 1
    /\ ~table.absent /\ Len(table.rows) = 1
    /\ table.rows[1].cells["a"] # Null /\ table.rows[1].cells["b"] = Null
    /\ \E i \in DOMAIN store["B"] :
           /\ store["B"][i].value = NotANumber
           /\ normalize_date(store["B"][i].date, mapping[1].frequency)
                  # table.rows[1].date

\* C40: the series files are append-only under the sync loop: a stored row
\* is never removed, moved or modified, and every write of a file stores
\* the rows it held before followed by the new unique rows of the batch.
C40_StoreIsAppendOnly ==
    [][\A c \in Codes :
           store'[c] # store[c] =>
               /\ pc = "fetched" /\ c = series_code
               /\ new_unique(store[c], new_obs) # <<>>
               /\ store'[c] = store[c] \o new_unique(store[c], new_obs)]_vars

\* The second run appended one row to the two rows the first run stored,
\* from a batch that held a stored date again.
C40_Witness ==
    /\ pc = "saved" /\ runs = 2
    /\ Len(existing_obs) = 2
    /\ Len(new_obs) = 2
    /\ store[series_code] = Append(existing_obs, new_obs[2])
    /\ new_obs[1].date \in DatesIn(existing_obs)
    /\ new_obs[1] \notin RowsIn(existing_obs)

====
